---- MODULE Spec2Model ----
(***************************************************************************)
(* King of Time MCP server: the retrying request core of KingOfTimeClient  *)
(* (client.py), its endpoint methods, and the tool adapter (server.py).    *)
(*                                                                         *)
(* A text is a non-empty sequence of lines (the text split at its line     *)
(* breaks); a one-line text is a sequence of length 1.                     *)
(***************************************************************************)
EXTENDS Integers, Sequences, FiniteSets, TLC

\* ------------------------------------------------------------- bounds

\* Number of tool invocations the hosting runtime may schedule concurrently.
NumInv == 2
\* Largest retry budget (max_retries) a direct call of _request is given.
MaxBudget == 4

\* ------------------------------------------------- program constants

\* client.py:54  max_retries: int = 3
DefaultMaxRetries == 3
\* client.py:62  the rate-limit status
TooManyRequests == 429
\* client.py:68  the lowest error status
ErrorFloor == 400
\* client.py:72  the no-content status
NoContent == 204
\* client.py:63  the backoff base
BackoffBase == 2

Procs == 1..NumInv

\* ------------------------------------------------------------- texts

Line(s) == <<s>>

\* String concatenation on texts: the last line of a continues with the first of b.
Cat(a, b) ==
    SubSeq(a, 1, Len(a) - 1) \o <<a[Len(a)] \o b[1]>> \o Tail(b)

OneLine(t) == Len(t) = 1

RECURSIVE Pow(_, _)
Pow(b, e) == IF e = 0 THEN 1 ELSE b * Pow(b, e - 1)

\* ------------------------------------------------------- JSON values

\* Python values a decoded body can be: None, an int, a list of ints, or a
\* dict with string keys "a", "b", ... and int values (items holds the values).
JNull == [t |-> "null", n |-> 0, items |-> <<>>]
JNum(k) == [t |-> "num", n |-> k, items |-> <<>>]
JList(s) == [t |-> "list", n |-> 0, items |-> s]
JObj(s) == [t |-> "obj", n |-> 0, items |-> s]

\* Python's None is what json gives for null and what _request returns for 204.
PyNone == JNull

JsonValues ==
    {JNull, JNum(0), JNum(1), JList(<<>>), JList(<<1>>), JList(<<1, 0>>),
     JObj(<<>>), JObj(<<1>>)}

\* Python truthiness of a decoded value (`if result`).
Truthy(v) ==
    CASE v.t = "null" -> FALSE
      [] v.t = "num" -> v.n # 0
      [] OTHER -> Len(v.items) > 0

KeyName(i) == IF i = 1 THEN "a" ELSE "b"

\* The i-th member line of a container printed with indent=2.
ItemLine(v, i) ==
    "  " \o (IF v.t = "obj" THEN "\"" \o KeyName(i) \o "\": " ELSE "")
         \o ToString(v.items[i])
         \o (IF i < Len(v.items) THEN "," ELSE "")

\* json.dumps(data, ensure_ascii=False, indent=2)
_fmt(v) ==
    CASE v.t = "null" -> Line("null")
      [] v.t = "num" -> Line(ToString(v.n))
      [] v.t = "list" ->
            IF Len(v.items) = 0 THEN Line("[]")
            ELSE <<"[">> \o [i \in 1..Len(v.items) |-> ItemLine(v, i)] \o <<"]">>
      [] v.t = "obj" ->
            IF Len(v.items) = 0 THEN Line("{}")
            ELSE <<"{">> \o [i \in 1..Len(v.items) |-> ItemLine(v, i)] \o <<"}">>

RECURSIVE CompactItems(_, _)
CompactItems(v, i) ==
    IF i > Len(v.items) THEN ""
    ELSE (IF v.t = "obj" THEN "\"" \o KeyName(i) \o "\":" ELSE "")
         \o ToString(v.items[i])
         \o (IF i < Len(v.items) THEN "," ELSE "")
         \o CompactItems(v, i + 1)

\* The one-line form of a value, as an upstream server writes it on the wire.
Compact(v) ==
    CASE v.t = "null" -> Line("null")
      [] v.t = "num" -> Line(ToString(v.n))
      [] v.t = "list" -> Line("[" \o CompactItems(v, 1) \o "]")
      [] v.t = "obj" -> Line("{" \o CompactItems(v, 1) \o "}")

\* resp.json(): the value whose one-line or indented form the text is;
\* any other text raises a decode error.
IsJson(text) == \E v \in JsonValues : text = Compact(v) \/ text = _fmt(v)
JsonOf(text) == CHOOSE v \in JsonValues : text = Compact(v) \/ text = _fmt(v)

\* ------------------------------------------------- optional arguments

\* An argument typed `str | None`: unset is None, otherwise a string.
None == [set |-> FALSE, val |-> ""]
Some(s) == [set |-> TRUE, val |-> s]

\* A dict entry or JSON body field: key and the value as it is written.
Pair(k, v) == <<k, v>>
Quote(s) == "\"" \o s \o "\""

RECURSIVE SelectPairs(_, _)
SelectPairs(pairs, keep) ==
    IF pairs = <<>> THEN <<>>
    ELSE (IF keep[1] THEN <<pairs[1]>> ELSE <<>>)
         \o SelectPairs(Tail(pairs), Tail(keep))

\* The request handed to httpx: params=None and json=None are empty sequences
\* with their flag down.
Request(method, path, hasParams, params, hasBody, body) ==
    [method |-> method, path |-> path, hasParams |-> hasParams,
     params |-> params, hasBody |-> hasBody, body |-> body]

\* Variant: the filter keeps what is truthy, dropping empty strings too.
IsNotNoneTruthy(v) == v.set /\ v.val # ""

\* `v is not None`
IsNotNone(v) == v.set

\* _get: filtered = {k: v for k, v in params.items() if v is not None};
\* params=filtered or None
_get(path, params) ==
    LET keep == [i \in 1..Len(params) |-> IsNotNone(params[i][2])]
        kept == SelectPairs(params, keep)
        filtered == [i \in 1..Len(kept) |-> Pair(kept[i][1], kept[i][2].val)]
    IN  Request("GET", path, filtered # <<>>, filtered, FALSE, <<>>)

_post(path, body) == Request("POST", path, FALSE, <<>>, TRUE, body)

_put(path, body) == Request("PUT", path, FALSE, <<>>, TRUE, body)

_delete(path) == Request("DELETE", path, FALSE, <<>>, FALSE, <<>>)

\* `if date:` on an optional string: set and not empty.
IsTruthyStr(v) == v.set /\ v.val # ""

\* record_time: body = {"type": record_type}; date and time added when truthy.
ClientRecordTime(employee_key, record_type, date, time) ==
    _post("/daily-workings/timerecord/" \o employee_key,
          <<Pair("type", ToString(record_type))>>
          \o (IF IsTruthyStr(date) THEN <<Pair("date", Quote(date.val))>> ELSE <<>>)
          \o (IF IsTruthyStr(time) THEN <<Pair("time", Quote(time.val))>> ELSE <<>>))

ClientApproveRequest(request_id) ==
    _put("/requests/" \o request_id, <<Pair("action", Quote("approve"))>>)

\* reject_request: reason is a plain string defaulting to "".
ClientRejectRequest(request_id, reason) ==
    _put("/requests/" \o request_id,
         <<Pair("action", Quote("reject"))>>
         \o (IF reason # "" THEN <<Pair("reason", Quote(reason))>> ELSE <<>>))

ClientGetDailyWorkings(date, start_date, end_date, division_code) ==
    _get("/daily-workings",
         <<Pair("date", date), Pair("startDate", start_date),
           Pair("endDate", end_date), Pair("divisionCode", division_code)>>)

ClientListEmployees(division_code) ==
    _get("/employees", <<Pair("divisionCode", division_code)>>)

ClientGetMonthlyWorkings(date, division_code) ==
    _get("/monthly-workings/" \o date, <<Pair("divisionCode", division_code)>>)

\* ------------------------------------------------------ tool arguments

Tools ==
    {"get_company", "list_administrators", "list_employees", "get_employee",
     "list_divisions", "list_working_types", "list_employee_groups",
     "get_daily_workings", "get_monthly_workings", "get_yearly_holidays",
     "record_time", "get_schedule_requests", "approve_request",
     "reject_request", "check_token"}

\* The arguments of a tool call; a tool reads only its own parameters.
\* key is the tool's required string (employee code, request id, date, ...).
Args(key, date, start_date, end_date, division_code, time, record_type, year, reason) ==
    [key |-> key, date |-> date, start_date |-> start_date, end_date |-> end_date,
     division_code |-> division_code, time |-> time, record_type |-> record_type,
     year |-> year, reason |-> reason]

NoArgs == Args("", None, None, None, None, None, 0, 0, "")

OptDate == {None, Some(""), Some("2026-01-01")}
OptEnd == {None, Some(""), Some("2026-01-31")}
OptDivision == {None, Some(""), Some("D1")}
OptTime == {None, Some(""), Some("09:00")}
RecordTypes == 1..4

ArgsOf(tool) ==
    CASE tool = "list_employees" ->
            {[NoArgs EXCEPT !.division_code = d] : d \in OptDivision}
      [] tool = "get_employee" -> {[NoArgs EXCEPT !.key = "E001"]}
      [] tool = "get_daily_workings" ->
            {[NoArgs EXCEPT !.date = a, !.start_date = b, !.end_date = c,
                            !.division_code = d] :
                a \in OptDate, b \in OptDate, c \in OptEnd, d \in OptDivision}
      [] tool = "get_monthly_workings" ->
            {[NoArgs EXCEPT !.key = "2026-01", !.division_code = d] :
                d \in OptDivision}
      [] tool = "get_yearly_holidays" ->
            {[NoArgs EXCEPT !.key = "H1", !.year = 2026]}
      [] tool = "record_time" ->
            {[NoArgs EXCEPT !.key = "E001", !.record_type = r, !.date = a,
                            !.time = t] :
                r \in RecordTypes, a \in OptDate, t \in OptTime}
      [] tool = "get_schedule_requests" -> {[NoArgs EXCEPT !.key = "2026-01-01"]}
      [] tool = "approve_request" -> {[NoArgs EXCEPT !.key = "R1"]}
      [] tool = "reject_request" ->
            {[NoArgs EXCEPT !.key = "R1", !.reason = r] : r \in {"", "late"}}
      [] OTHER -> {NoArgs}

\* The client method each tool calls, up to the request it hands to _request.
ClientCall(tool, a, token) ==
    CASE tool = "get_company" -> _get("/company", <<>>)
      [] tool = "list_administrators" -> _get("/administrators", <<>>)
      [] tool = "list_employees" -> ClientListEmployees(a.division_code)
      [] tool = "get_employee" -> _get("/employees/" \o a.key, <<>>)
      [] tool = "list_divisions" -> _get("/divisions", <<>>)
      [] tool = "list_working_types" -> _get("/working-types", <<>>)
      [] tool = "list_employee_groups" -> _get("/employee-groups", <<>>)
      [] tool = "get_daily_workings" ->
            ClientGetDailyWorkings(a.date, a.start_date, a.end_date, a.division_code)
      [] tool = "get_monthly_workings" ->
            ClientGetMonthlyWorkings(a.key, a.division_code)
      [] tool = "get_yearly_holidays" ->
            _get("/yearly-workings/holidays/" \o a.key \o "/" \o ToString(a.year), <<>>)
      [] tool = "record_time" ->
            ClientRecordTime(a.key, a.record_type, a.date, a.time)
      [] tool = "get_schedule_requests" -> _get("/schedule-requests/" \o a.key, <<>>)
      [] tool = "approve_request" -> ClientApproveRequest(a.key)
      [] tool = "reject_request" -> ClientRejectRequest(a.key, a.reason)
      [] tool = "check_token" -> _get("/tokens/" \o token \o "/available", <<>>)

\* ------------------------------------------------- responses, results

Response(status, text) == [status |-> status, text |-> text]

\* The responses the upstream API gives in the model.
Responses ==
    {Response(200, Line("{}")), Response(200, Line("[1]")),
     Response(200, Line("{\"a\":1}")), Response(200, <<"[", "  1,", "  0", "]">>),
     Response(200, Line("0")), Response(200, Line("null")),
     Response(200, Line("<html>")), Response(201, Line("1")),
     Response(NoContent, Line("")), Response(NoContent, Line("[1]")),
     Response(301, Line("")), Response(399, Line("[]")),
     Response(ErrorFloor, Line("bad request")),
     Response(404, <<"{", "  \"code\": 404", "}">>),
     Response(TooManyRequests, Line("slow down")),
     Response(500, Line(""))}

\* class KotApiError: status_code, message; str(e) is "[status_code] message".
KotApiError(status_code, message) ==
    [kind |-> "raise", exc |-> "KotApiError", value |-> PyNone,
     status_code |-> status_code, message |-> message]

ErrStr(e) == Cat(Line("[" \o ToString(e.status_code) \o "] "), e.message)

\* What a call of _request ends with: a returned value or a raised exception.
Return(v) ==
    [kind |-> "return", exc |-> "", value |-> v, status_code |-> 0,
     message |-> Line("")]
Fault(exc) ==
    [kind |-> "raise", exc |-> exc, value |-> PyNone, status_code |-> 0,
     message |-> Line("")]
Running ==
    [kind |-> "running", exc |-> "", value |-> PyNone, status_code |-> 0,
     message |-> Line("")]

\* What a tool invocation ends with: a returned text or a raised exception.
ToolReturn(text) == [kind |-> "return", text |-> text, exc |-> ""]
ToolRaise(exc) == [kind |-> "raise", text |-> Line(""), exc |-> exc]
NoOutcome == [kind |-> "none", text |-> Line(""), exc |-> ""]

ConfirmTools == {"approve_request", "reject_request"}

\* The fixed texts of server.py 294 and 312, and the prefix of the error
\* text (server.py 55), written in Latin letters.
ApprovedText == "Shounin shimashita"
RejectedText == "Kikyaku shimashita"
ErrorPrefix == "Era-: "

Confirmation(tool) ==
    IF tool = "approve_request" THEN Line(ApprovedText) ELSE Line(RejectedText)

\* Variant: every tool answers a falsy result with a confirmation text.
FormatConfirmAll(tool, v) == IF Truthy(v) THEN _fmt(v) ELSE Confirmation(tool)

\* return _fmt(result)   /   return _fmt(result) if result else <fixed text>
FormatResult(tool, v) ==
    IF tool \in ConfirmTools
    THEN (IF Truthy(v) THEN _fmt(v) ELSE Confirmation(tool))
    ELSE _fmt(v)

\* Variant: `except Exception` -- every exception becomes an error text.
CatchesAll(r) == TRUE

\* except KotApiError as e: return f"<prefix>{e}"
IsCaught(r) == r.exc = "KotApiError"

\* try / except KotApiError of a tool around its client call.
ToolOutcome(tool, r) ==
    IF r.kind = "return" THEN ToolReturn(FormatResult(tool, r.value))
    ELSE IF IsCaught(r) THEN ToolReturn(Cat(Line(ErrorPrefix), ErrStr(r)))
    ELSE ToolRaise(r.exc)

\* Variant: no `finally` -- close() only after a return or a caught error.
AfterCallNoFinally(kind, r) ==
    IF kind = "tool" /\ (r.kind = "return" \/ r.exc = "KotApiError")
    THEN "closing" ELSE "done"

\* finally: await client.close()  -- a tool closes on every exit of its try
\* block; a direct caller of _request is left with its client.
AfterCall(kind, r) == IF kind = "tool" THEN "closing" ELSE "done"

\* os.environ.get("KOT_ACCESS_TOKEN", "")
EnvAbsent == [present |-> FALSE, val |-> ""]
EnvSet(v) == [present |-> TRUE, val |-> v]
EnvGet(e) == IF e.present THEN e.val ELSE ""

\* Variant: `if token is None` -- never true of os.environ.get(name, "").
IsMissingNoneOnly(token) == FALSE

\* `if not token:` -- the configuration error of _get_client
IsMissing(token) == token = ""

\* ----------------------------------------------------------- the state

VARIABLES
    env,      \* the KOT_ACCESS_TOKEN entry of the process environment
    inv,      \* inv[i]: the local state of invocation i (one asyncio task)
    client,   \* client[c]: "none", "open" or "closed" -- the httpx client of c
    closes    \* closes[c]: how many times close() completed on client c

vars == <<env, inv, client, closes>>

\* Variant: one module-level client shared by every invocation.
SharedClient(i) == 1

\* client = _get_client(): every invocation constructs a client of its own.
ClientOf(i) == i

Idle ==
    [pc |-> "idle", kind |-> "", tool |-> "", args |-> NoArgs,
     req |-> _delete(""), budget |-> 0, attempt |-> 0, sent |-> 0,
     sentClosed |-> 0, sleeps |-> <<>>, warned |-> <<>>, hist |-> <<>>,
     result |-> Running, outcome |-> NoOutcome]

Init ==
    /\ env \in {EnvAbsent, EnvSet(""), EnvSet("tok")}
    /\ inv = [i \in Procs |-> Idle]
    /\ client = [c \in Procs |-> "none"]
    /\ closes = [c \in Procs |-> 0]

\* ------------------------------------------------------------ _request

\* The end of the client call: the result goes to the caller, and a tool
\* turns it into its outcome before it awaits close().
Finish(s, r) ==
    [s EXCEPT !.result = r,
              !.outcome = IF s.kind = "tool" THEN ToolOutcome(s.tool, r) ELSE NoOutcome,
              !.pc = AfterCall(s.kind, r)]

\* resp = await self._client.request(...): the request goes out.
Send(s, open) ==
    [s EXCEPT !.sent = @ + 1,
              !.sentClosed = @ + (IF open THEN 0 ELSE 1),
              !.pc = "awaitResp"]

\* Variant: linear backoff, attempt + 1 seconds.
BackoffLinear(attempt) == attempt + 1

\* wait = 2 ** attempt
Backoff(attempt) == Pow(BackoffBase, attempt)

\* Variant: range(max_retries + 1) -- one attempt too many.
LoopHeadOneMore(s, open) ==
    IF s.attempt <= s.budget THEN Send(s, open)
    ELSE Finish(s, KotApiError(TooManyRequests,
                               Line("Rate limit exceeded after retries")))

\* for attempt in range(max_retries): ... ; raise KotApiError(429, ...)
LoopHead(s, open) ==
    IF s.attempt < s.budget THEN Send(s, open)
    ELSE Finish(s, KotApiError(TooManyRequests,
                               Line("Rate limit exceeded after retries")))

\* Variant: server errors (5xx) are retried like 429.
RetriesServerErrors(resp) == resp.status = TooManyRequests \/ resp.status >= 500

\* Variant: the 204 test is missing.
NoContentNever(resp) == FALSE

IsRateLimited(resp) == resp.status = TooManyRequests
IsError(resp) == resp.status >= ErrorFloor
IsNoContent(resp) == resp.status = NoContent

\* The body of the loop after the response arrived (client.py 62-75).
OnResponse(s, resp) ==
    LET s1 == [s EXCEPT !.hist = Append(@, resp)]
    IN  IF IsRateLimited(resp)
        THEN [s1 EXCEPT !.warned = Append(@, Backoff(s.attempt)),
                        !.sleeps = Append(@, Backoff(s.attempt)),
                        !.pc = "sleeping"]
        ELSE IF IsError(resp)
        THEN Finish(s1, KotApiError(resp.status, resp.text))
        ELSE IF IsNoContent(resp)
        THEN Finish(s1, Return(PyNone))
        ELSE IF IsJson(resp.text)
        THEN Finish(s1, Return(JsonOf(resp.text)))
        ELSE Finish(s1, Fault("JSONDecodeError"))

\* ------------------------------------------------------------- actions

IsOpen(i) == client[ClientOf(i)] = "open"

\* A tool is invoked: _get_client(), then the client method up to its first
\* request (or to the end, when no request is made).
Invoke(i, tool, a) ==
    /\ inv[i].pc = "idle"
    /\ LET token == EnvGet(env)
           s0 == [inv[i] EXCEPT !.kind = "tool", !.tool = tool, !.args = a]
       IN  IF IsMissing(token)
           THEN /\ inv' = [inv EXCEPT ![i] =
                              [s0 EXCEPT !.outcome = ToolRaise("RuntimeError"),
                                         !.pc = "done"]]
                /\ UNCHANGED <<client, closes>>
           ELSE /\ client' = [client EXCEPT ![ClientOf(i)] = "open"]
                /\ inv' = [inv EXCEPT ![i] =
                              LoopHead([s0 EXCEPT !.req = ClientCall(tool, a, token),
                                                  !.budget = DefaultMaxRetries],
                                       TRUE)]
                /\ UNCHANGED closes
    /\ UNCHANGED env

\* A direct call client._request(method, "/ping", max_retries=budget) on a
\* client constructed for it.
CallRequest(i, method, budget) ==
    /\ inv[i].pc = "idle"
    /\ client' = [client EXCEPT ![ClientOf(i)] = "open"]
    /\ inv' = [inv EXCEPT ![i] =
                  LoopHead([inv[i] EXCEPT !.kind = "core", !.tool = "_request",
                                          !.req = Request(method, "/ping", FALSE,
                                                          <<>>, FALSE, <<>>),
                                          !.budget = budget],
                           TRUE)]
    /\ UNCHANGED <<env, closes>>

\* The awaited response arrives.
Respond(i, resp) ==
    /\ inv[i].pc = "awaitResp"
    /\ inv' = [inv EXCEPT ![i] = OnResponse(inv[i], resp)]
    /\ UNCHANGED <<env, client, closes>>

\* The awaited request fails in the transport: httpx raises.
NetworkFault(i) ==
    /\ inv[i].pc = "awaitResp"
    /\ inv' = [inv EXCEPT ![i] = Finish(inv[i], Fault("NetworkError"))]
    /\ UNCHANGED <<env, client, closes>>

\* asyncio.sleep(wait) is over: `continue` to the next attempt.
Wake(i) ==
    /\ inv[i].pc = "sleeping"
    /\ inv' = [inv EXCEPT ![i] =
                  LoopHead([inv[i] EXCEPT !.attempt = @ + 1], IsOpen(i))]
    /\ UNCHANGED <<env, client, closes>>

\* await client.close() completes and the tool's outcome leaves the tool.
Close(i) ==
    /\ inv[i].pc = "closing"
    /\ client' = [client EXCEPT ![ClientOf(i)] = "closed"]
    /\ closes' = [closes EXCEPT ![ClientOf(i)] = @ + 1]
    /\ inv' = [inv EXCEPT ![i].pc = "done"]
    /\ UNCHANGED env

Methods == {"GET", "POST", "PUT", "DELETE"}

\* One invocation, every tool with every argument, every response.
Next ==
    \/ \E tool \in Tools : \E a \in ArgsOf(tool) : Invoke(1, tool, a)
    \/ \E m \in Methods : \E b \in 0..MaxBudget : CallRequest(1, m, b)
    \/ \E resp \in Responses : Respond(1, resp)
    \/ NetworkFault(1)
    \/ Wake(1)
    \/ Close(1)

Spec == Init /\ [][Next]_vars

\* Concurrent invocations, as the hosting runtime interleaves them.
ConcTools == {"get_company", "approve_request"}
ConcResponses ==
    {Response(200, Line("{}")), Response(NoContent, Line("")),
     Response(404, Line("not found")), Response(TooManyRequests, Line("slow down"))}

NextConc ==
    \E i \in Procs :
        \/ \E tool \in ConcTools : \E a \in ArgsOf(tool) : Invoke(i, tool, a)
        \/ \E resp \in ConcResponses : Respond(i, resp)
        \/ NetworkFault(i)
        \/ Wake(i)
        \/ Close(i)

SpecConc == Init /\ [][NextConc]_vars

\* ============================================================ properties

\* _request has ended (returned or raised).
Finished(s) == s.result.kind # "running"
\* Every request that went out was answered by a response.
Answered(s) == Len(s.hist) = s.sent
All429(h) == \A k \in 1..Len(h) : h[k].status = 429
\* 1, 2, 4, ... seconds
Doubling == <<1, 2, 4, 8, 16, 32, 64>>
Delays(n) == SubSeq(Doubling, 1, n)
Statuses(h) == [k \in 1..Len(h) |-> h[k].status]

\* C1: a call of _request whose every response is 429 makes max_retries
\* attempts, sleeps 1, 2, 4, ... (2^attempt) seconds after each of them, and
\* then raises KotApiError with status_code 429.
C1_RateLimitExhaustion ==
    \A i \in Procs :
        LET s == inv[i]
        IN  (Finished(s) /\ Answered(s) /\ All429(s.hist)) =>
                /\ s.sent = s.budget
                /\ s.sleeps = Delays(s.budget)
                /\ s.result.kind = "raise"
                /\ s.result.exc = "KotApiError"
                /\ s.result.status_code = 429

C1_Witness ==
    \E i \in Procs :
        /\ Finished(inv[i]) /\ Answered(inv[i]) /\ All429(inv[i].hist)
        /\ inv[i].budget = 4
        /\ inv[i].sleeps = <<1, 2, 4, 8>>
        /\ inv[i].result.status_code = 429

\* C2: a response with status >= 400 other than 429, on any attempt and for
\* any HTTP verb, ends _request at once with a KotApiError carrying that
\* status and body text: it is the last response, no request follows it and
\* no sleep follows it.
C2_ErrorFailsImmediately ==
    \A i \in Procs :
        LET s == inv[i]
        IN  \A k \in 1..Len(s.hist) :
                (s.hist[k].status >= 400 /\ s.hist[k].status # 429) =>
                    /\ k = Len(s.hist)
                    /\ s.sent = k
                    /\ Len(s.sleeps) = k - 1
                    /\ s.pc \in {"closing", "done"}
                    /\ s.result.kind = "raise"
                    /\ s.result.exc = "KotApiError"
                    /\ s.result.status_code = s.hist[k].status
                    /\ s.result.message = s.hist[k].text

C2_Witness ==
    \E i \in Procs :
        /\ inv[i].req.method = "PUT"
        /\ Statuses(inv[i].hist) = <<429, 500>>
        /\ inv[i].pc = "done"
        /\ inv[i].sent = 2
        /\ inv[i].result.status_code = 500

\* What a response of status below 400 decodes to.
Decodes(resp) == resp.status = 204 \/ IsJson(resp.text)
Decoded(resp) == IF resp.status = 204 THEN PyNone ELSE JsonOf(resp.text)
\* The response that ended the retries is the last one and is below 400.
EndsBelow400(s) ==
    /\ Len(s.hist) >= 1
    /\ s.hist[Len(s.hist)].status < 400

\* C3 as stated: k responses of 429 and then a status below 400 make
\* _request return the result of attempt k+1 after k+1 requests and sleeps
\* of 2^0, ..., 2^(k-1) seconds.
C3_Original ==
    \A i \in Procs :
        LET s == inv[i]
            n == Len(s.hist)
        IN  EndsBelow400(s) =>
                /\ s.result.kind = "return"
                /\ Decodes(s.hist[n])
                /\ s.result.value = Decoded(s.hist[n])
                /\ s.sent = n
                /\ s.sleeps = Delays(n - 1)

\* C3 as amended: the same, for a last response that is 204 or whose body
\* is JSON text; a body that is not JSON makes _request raise the decode
\* error instead, after the same requests and sleeps.
C3_RetryThenSuccess ==
    \A i \in Procs :
        LET s == inv[i]
            n == Len(s.hist)
        IN  EndsBelow400(s) =>
                /\ All429(SubSeq(s.hist, 1, n - 1))
                /\ n <= s.budget
                /\ s.sent = n
                /\ s.sleeps = Delays(n - 1)
                /\ Decodes(s.hist[n]) =>
                      /\ s.result.kind = "return"
                      /\ s.result.value = Decoded(s.hist[n])
                /\ ~Decodes(s.hist[n]) =>
                      /\ s.result.kind = "raise"
                      /\ s.result.exc = "JSONDecodeError"
                /\ (s.budget = 3 /\ s.hist[n] = Response(200, Line("[1]"))
                    /\ n = 3) =>
                      /\ s.result.value = JList(<<1>>)
                      /\ s.sleeps = <<1, 2>>

C3_Witness ==
    \E i \in Procs :
        /\ inv[i].budget = 4
        /\ Statuses(inv[i].hist) = <<429, 429, 429, 200>>
        /\ inv[i].hist[4].text = Line("[1]")
        /\ inv[i].result = Return(JList(<<1>>))
        /\ inv[i].sleeps = <<1, 2, 4>>
        /\ inv[i].sent = 4

\* The invocation is a tool's and it constructed its client.
HasClient(s) == s.kind = "tool" /\ s.pc # "idle" /\ s.outcome.exc # "RuntimeError"

\* C4: a tool invocation that constructed a client closes it exactly once
\* before it ends, whether it ends with a result, a KotApiError or another
\* fault, and sends no request on a closed client.
C4_ClosedOnce ==
    \A i \in Procs :
        LET s == inv[i]
            c == ClientOf(i)
        IN  s.kind = "tool" =>
                /\ s.sentClosed = 0
                /\ HasClient(s) => client[c] # "none"
                /\ (HasClient(s) /\ s.pc = "done") =>
                      client[c] = "closed" /\ closes[c] = 1
                /\ (HasClient(s) /\ s.pc # "done") =>
                      client[c] = "open" /\ closes[c] = 0
                /\ Finished(s) => s.pc \in {"closing", "done"}

C4_Witness ==
    \E i \in Procs :
        /\ inv[i].kind = "tool"
        /\ inv[i].pc = "done"
        /\ inv[i].outcome = ToolRaise("NetworkError")
        /\ Len(inv[i].hist) = 1
        /\ client[ClientOf(i)] = "closed"
        /\ closes[ClientOf(i)] = 1

\* C6: with KOT_ACCESS_TOKEN absent or empty a tool invocation raises the
\* configuration error with no client constructed, no request sent and no
\* sleep.
C6_MissingToken ==
    \A i \in Procs :
        LET s == inv[i]
        IN  ((~env.present \/ env.val = "") /\ s.kind = "tool") =>
                /\ s.pc = "done"
                /\ s.outcome = ToolRaise("RuntimeError")
                /\ client[ClientOf(i)] = "none"
                /\ closes[ClientOf(i)] = 0
                /\ s.sent = 0
                /\ s.sleeps = <<>>
                /\ s.hist = <<>>

C6_Witness ==
    \E i \in Procs :
        /\ env = EnvSet("")
        /\ inv[i].tool = "check_token"
        /\ inv[i].pc = "done"
        /\ inv[i].outcome.exc = "RuntimeError"
        /\ inv[i].sent = 0

\* "[status] message" behind the error prefix, line by line.
ErrorText(status, message) ==
    <<ErrorPrefix \o "[" \o ToString(status) \o "] " \o message[1]>> \o Tail(message)

\* C5 as stated: each of the 14 tools answers a KotApiError of its client
\* with a one-line error text made of the status code and the message, and
\* lets a configuration error and any other fault propagate.
C5_Original ==
    \A i \in Procs :
        LET s == inv[i]
        IN  (s.kind = "tool" /\ s.pc = "done") =>
                /\ s.result.exc = "KotApiError" =>
                      /\ Cardinality(Tools) = 14
                      /\ s.outcome.kind = "return"
                      /\ OneLine(s.outcome.text)
                      /\ s.outcome.text =
                            ErrorText(s.result.status_code, s.result.message)
                /\ (s.result.kind = "raise" /\ s.result.exc # "KotApiError") =>
                      s.outcome = ToolRaise(s.result.exc)
                /\ s.result.kind = "running" =>
                      s.outcome = ToolRaise("RuntimeError")

\* C5 as amended: each of the 15 tools answers a KotApiError of its client
\* with the text "<prefix>[status] message", which has as many lines as the
\* message (one line when the message has no line break), and lets a
\* configuration error and any fault that is not a KotApiError propagate.
C5_ErrorsBecomeText ==
    /\ Cardinality(Tools) = 15
    /\ \A i \in Procs :
        LET s == inv[i]
        IN  (s.kind = "tool" /\ s.pc \in {"closing", "done"}) =>
                /\ s.result.exc = "KotApiError" =>
                      /\ s.outcome.kind = "return"
                      /\ s.outcome.text =
                            ErrorText(s.result.status_code, s.result.message)
                      /\ Len(s.outcome.text) = Len(s.result.message)
                /\ (s.result.kind = "raise" /\ s.result.exc # "KotApiError") =>
                      s.outcome = ToolRaise(s.result.exc)
                /\ s.result.kind = "running" =>
                      s.outcome = ToolRaise("RuntimeError")
                /\ (All429(s.hist) /\ Answered(s) /\ Finished(s)) =>
                      s.outcome.text =
                          Line(ErrorPrefix \o "[429] Rate limit exceeded after retries")

C5_Witness ==
    \E i \in Procs :
        /\ inv[i].tool = "check_token"
        /\ inv[i].pc = "done"
        /\ Statuses(inv[i].hist) = <<429, 404>>
        /\ inv[i].outcome.kind = "return"
        /\ inv[i].outcome.text = <<ErrorPrefix \o "[404] {", "  \"code\": 404", "}">>

\* The tool returned the result of its client call.
Succeeded(s) ==
    s.kind = "tool" /\ s.pc \in {"closing", "done"} /\ s.result.kind = "return"
LastStatus(s) == s.hist[Len(s.hist)].status

\* C7 as stated: on success a tool returns the JSON text of the client's
\* result, except that for an endpoint answering 204 it returns a fixed
\* confirmation text and not a JSON block.
C7_Original ==
    \A i \in Procs :
        LET s == inv[i]
        IN  Succeeded(s) =>
                IF LastStatus(s) = 204
                THEN s.outcome.text \in {Line(ApprovedText), Line(RejectedText)}
                ELSE s.outcome = ToolReturn(_fmt(s.result.value))

\* C7 as amended: on success approve_request and reject_request return
\* their fixed confirmation text when the client's result is falsy (None
\* after a 204 or a null body, and also 0, [] and {}) and its JSON text
\* otherwise; every other tool returns the JSON text of the result, which
\* is "null" after a 204.
C7_SuccessText ==
    \A i \in Procs :
        LET s == inv[i]
            v == s.result.value
            falsy == v \in {PyNone, JNum(0), JList(<<>>), JObj(<<>>)}
        IN  Succeeded(s) =>
                /\ s.outcome.kind = "return"
                /\ (s.tool = "approve_request" /\ falsy) =>
                      s.outcome.text = Line(ApprovedText)
                /\ (s.tool = "reject_request" /\ falsy) =>
                      s.outcome.text = Line(RejectedText)
                /\ (s.tool \notin {"approve_request", "reject_request"} \/ ~falsy) =>
                      s.outcome.text = _fmt(v)
                /\ (s.tool \notin {"approve_request", "reject_request"}
                    /\ LastStatus(s) = 204) =>
                      s.outcome.text = Line("null")
                /\ (~falsy /\ s.hist[Len(s.hist)].text = Line("{\"a\":1}")) =>
                      s.outcome.text = <<"{", "  \"a\": 1", "}">>

C7_Witness ==
    \E i \in Procs :
        /\ inv[i].tool = "approve_request"
        /\ inv[i].args.key = "R1"
        /\ inv[i].pc = "done"
        /\ Statuses(inv[i].hist) = <<204>>
        /\ inv[i].outcome = ToolReturn(Line(ApprovedText))

\* C8 as stated: a 204 on any attempt makes _request return None, and any
\* other status below 400 makes it return the parsed JSON body of that
\* response.
C8_Original ==
    \A i \in Procs :
        LET s == inv[i]
            n == Len(s.hist)
        IN  EndsBelow400(s) =>
                IF s.hist[n].status = 204
                THEN s.result = Return(PyNone)
                ELSE /\ s.result.kind = "return"
                     /\ IsJson(s.hist[n].text)
                     /\ s.result.value = JsonOf(s.hist[n].text)

\* C8 as amended: a 204 on any attempt makes _request return None whatever
\* the body; any other status below 400 makes it return the parsed body
\* when the body is JSON text, and raise the decode error (no KotApiError,
\* no retry) when it is not.
C8_NoContentAndJson ==
    \A i \in Procs :
        LET s == inv[i]
            n == Len(s.hist)
            last == s.hist[n]
        IN  EndsBelow400(s) =>
                /\ s.sent = n
                /\ last.status = 204 => s.result = Return(PyNone)
                /\ (last.status # 204 /\ IsJson(last.text)) =>
                      s.result = Return(JsonOf(last.text))
                /\ (last.status # 204 /\ ~IsJson(last.text)) =>
                      s.result = Fault("JSONDecodeError")
                /\ last = Response(200, <<"[", "  1,", "  0", "]">>) =>
                      s.result.value = JList(<<1, 0>>)
                /\ last = Response(201, Line("1")) => s.result.value = JNum(1)
                /\ last = Response(200, Line("null")) => s.result.value = PyNone

C8_Witness ==
    \E i \in Procs :
        /\ Statuses(inv[i].hist) = <<429, 204>>
        /\ inv[i].hist[2].text = Line("[1]")
        /\ inv[i].result = Return(PyNone)

\* The optional query parameters and body fields of each tool, by the name
\* they have in the request, and the argument each one carries.
QueryKeys(tool) ==
    CASE tool = "get_daily_workings" -> {"date", "startDate", "endDate", "divisionCode"}
      [] tool \in {"list_employees", "get_monthly_workings"} -> {"divisionCode"}
      [] OTHER -> {}
QueryArg(a, k) ==
    CASE k = "date" -> a.date
      [] k = "startDate" -> a.start_date
      [] k = "endDate" -> a.end_date
      [] k = "divisionCode" -> a.division_code
BodyKeys(tool) ==
    CASE tool = "record_time" -> {"date", "time"}
      [] tool = "reject_request" -> {"reason"}
      [] OTHER -> {}
\* reason is a plain string whose unset value is its default "".
BodyArg(a, k) ==
    CASE k = "date" -> a.date
      [] k = "time" -> a.time
      [] k = "reason" -> IF a.reason = "" THEN None ELSE Some(a.reason)
RequiredBody(tool, a) ==
    CASE tool = "record_time" -> <<Pair("type", ToString(a.record_type))>>
      [] tool = "approve_request" -> <<Pair("action", "\"approve\"")>>
      [] tool = "reject_request" -> <<Pair("action", "\"reject\"")>>
      [] OTHER -> <<>>

HasKey(pairs, k) == \E j \in 1..Len(pairs) : pairs[j][1] = k
Carries(pairs, k, v) == \E j \in 1..Len(pairs) : pairs[j] = Pair(k, v)
NoRepeat(pairs) ==
    \A j1, j2 \in 1..Len(pairs) : pairs[j1][1] = pairs[j2][1] => j1 = j2

\* The query string holds the optional parameters in `sent` and nothing else.
QueryIs(s, sent) ==
    /\ NoRepeat(s.req.params)
    /\ s.req.hasParams = (s.req.params # <<>>)
    /\ \A j \in 1..Len(s.req.params) : s.req.params[j][1] \in sent
    /\ \A k \in sent : Carries(s.req.params, k, QueryArg(s.args, k).val)

\* The JSON body holds the required fields, the optional fields in `sent`
\* and nothing else.
BodyIs(s, sent) ==
    LET req == RequiredBody(s.tool, s.args)
        opt == SubSeq(s.req.body, Len(req) + 1, Len(s.req.body))
    IN  /\ s.req.hasBody = (req # <<>>)
        /\ Len(s.req.body) >= Len(req)
        /\ SubSeq(s.req.body, 1, Len(req)) = req
        /\ NoRepeat(s.req.body)
        /\ \A j \in 1..Len(opt) : opt[j][1] \in sent
        /\ \A k \in sent : Carries(opt, k, Quote(BodyArg(s.args, k).val))

\* C9 as stated: the request of every endpoint method holds exactly the
\* optional fields that were supplied: an optional query parameter or body
\* field is in the request exactly when its argument is set.
C9_Original ==
    \A i \in Procs :
        LET s == inv[i]
        IN  HasClient(s) =>
                /\ QueryIs(s, {k \in QueryKeys(s.tool) : QueryArg(s.args, k).set})
                /\ BodyIs(s, {k \in BodyKeys(s.tool) : BodyArg(s.args, k).set})

\* C9 as amended: an optional query parameter is in the query string
\* exactly when its argument is not None (an empty string is sent as an
\* empty value), and an optional body field is in the JSON body exactly
\* when its argument is neither None nor the empty string. So
\* get_daily_workings(start_date, end_date) sends only startDate and
\* endDate, and record_time("E001", 1) sends POST
\* /daily-workings/timerecord/E001 with body {"type": 1}.
C9_OptionalFields ==
    \A i \in Procs :
        LET s == inv[i]
            a == s.args
        IN  HasClient(s) =>
                /\ QueryIs(s, {k \in QueryKeys(s.tool) : QueryArg(a, k).set})
                /\ BodyIs(s, {k \in BodyKeys(s.tool) :
                                 BodyArg(a, k).set /\ BodyArg(a, k).val # ""})
                /\ (s.tool = "get_daily_workings" /\ a.date = None
                    /\ a.start_date = Some("2026-01-01")
                    /\ a.end_date = Some("2026-01-31") /\ a.division_code = None) =>
                      s.req = [method |-> "GET", path |-> "/daily-workings",
                               hasParams |-> TRUE,
                               params |-> <<<<"startDate", "2026-01-01">>,
                                            <<"endDate", "2026-01-31">>>>,
                               hasBody |-> FALSE, body |-> <<>>]
                /\ (s.tool = "record_time" /\ a.key = "E001" /\ a.record_type = 1
                    /\ a.date = None /\ a.time = None) =>
                      s.req = [method |-> "POST",
                               path |-> "/daily-workings/timerecord/E001",
                               hasParams |-> FALSE, params |-> <<>>,
                               hasBody |-> TRUE, body |-> <<<<"type", "1">>>>]

C9_Witness ==
    \E i \in Procs :
        /\ HasClient(inv[i])
        /\ inv[i].tool = "record_time"
        /\ inv[i].args.date = Some("")
        /\ inv[i].args.time = Some("09:00")
        /\ inv[i].req.body = <<<<"type", "2">>, <<"time", "\"09:00\"">>>>

Count429(h) == Cardinality({k \in 1..Len(h) : h[k].status = 429})

\* C10: concurrently scheduled tool invocations are independent: the
\* attempt index, the delays, the number of requests and the outcome of each
\* are fixed by the responses to its own requests, and its client is open
\* or closed by its own steps alone.
C10_Independent ==
    \A i \in Procs :
        LET s == inv[i]
            c == ClientOf(i)
            n == Len(s.hist)
            lost == s.result.exc = "NetworkError"
        IN  /\ s.sleeps = Delays(Count429(s.hist))
            /\ s.attempt = Count429(s.hist) - (IF s.pc = "sleeping" THEN 1 ELSE 0)
            /\ s.sent = n + (IF s.pc = "awaitResp" \/ lost THEN 1 ELSE 0)
            /\ s.sentClosed = 0
            /\ All429(SubSeq(s.hist, 1, n - 1))
            /\ s.pc = "awaitResp" => All429(s.hist) /\ n < 3
            /\ s.pc = "sleeping" => All429(s.hist) /\ n \in 1..3
            /\ (Finished(s) /\ ~lost) =>
                  IF All429(s.hist)
                  THEN n = 3 /\ s.result.exc = "KotApiError"
                       /\ s.result.status_code = 429
                  ELSE IF s.hist[n].status >= 400
                  THEN s.result.exc = "KotApiError"
                       /\ s.result.status_code = s.hist[n].status
                  ELSE s.result.kind = "return"
            /\ client[c] =
                  (IF ~HasClient(s) THEN "none"
                   ELSE IF s.pc = "done" THEN "closed" ELSE "open")
            /\ closes[c] = (IF client[c] = "closed" THEN 1 ELSE 0)

C10_Witness ==
    /\ inv[1].pc = "sleeping"
    /\ inv[1].sleeps = <<1, 2>>
    /\ client[ClientOf(1)] = "open"
    /\ inv[2].pc = "done"
    /\ Statuses(inv[2].hist) = <<429, 200>>
    /\ inv[2].sleeps = <<1>>
    /\ client[ClientOf(2)] = "closed"

====
